---- MODULE Spec2Model ----
(***************************************************************************)
(* Model of the ultrasound CAN node (src/src/main.c): the echo callback    *)
(* ultrasoundEcho, the two publish functions, the 1 Hz heartbeat schedule   *)
(* and the transmit drain loop of main.  The echo callback runs in the      *)
(* GPIO library's own thread, so its steps interleave with every step of    *)
(* the main loop.                                                           *)
(*                                                                         *)
(* A 32-bit tick is a pair <<hi, lo>> of 16-bit halves (the model checker's *)
(* integers are 32-bit signed); diffTick is the C int it is converted to.   *)
(* A distance is kept in units of 0.0343 cm: distanceCm = units * 0.0343.   *)
(***************************************************************************)
EXTENDS Integers, Sequences, FiniteSets, TLC

\* ---------------------------------------------------------------- bounds
\* The clock reads StartClock when the process starts and stops MaxTime
\* seconds later; at most MaxLow LOW edges arrive; frame memory holds
\* MaxFrames frames.
StartClock == 10
MaxTime == 2
MaxLow == 1
MaxFrames == 2

\* ------------------------------------------------------- program constants
HeartbeatSubjectID == 32085
UltrasoundMessageSubjectID == 1610
PI_OFF == 0
PI_ON == 1
CanardPriorityNominal == 4
TransferIdModulo == 256
HeartbeatPayloadSize == 7
UltrasoundPayloadSize == 4
ByteModulo == 256
HalfWord == 65536
SignWord == 32768
NodeIdUnset == 255
NullFrame == 0

\* No watchdog is set on the echo pin, so no PI_TIMEOUT event is delivered.
Levels == {PI_OFF, PI_ON}

\* Tick values the echo events carry.  A HIGH edge comes at 1000 or at
\* 2^31 + 1100, a LOW edge at 1100: the echo windows are 100 ticks and,
\* across the wrap of the tick counter, 2^31 ticks.
HighTicks == { <<0, 1000>>, <<32768, 1100>> }

LowTicks == { <<0, 1100>> }

TicksOf(level) == IF level = PI_ON THEN HighTicks ELSE LowTicks

Slots == 1..MaxFrames

VARIABLES
  pc,            \* position of the main thread
  now,           \* the value time(NULL) returns
  boot_ts, next_1hz_at,
  hb_tid,        \* publishHeartbeat's static transfer_id
  us_tid,        \* publishUltrasoundDistance's static transfer_id
  startTick, firstTick,
  heap,          \* frame memory: slot -> [st: "live" or "free", tr]
  queue,         \* the transmit queue: slots, head first
  txf,           \* main's frame pointer
  registered,    \* the timer and echo callbacks are registered
  \* history of what the program did
  hbPublishes, hbEnq, usPublishes, usEnq,
  hbUptimes,     \* the uptime of every publishHeartbeat call
  lows, armed,
  last,          \* the last LOW edge: its ticks, diffTick and distance
  checked, missed,
  hbArg,         \* the uptime argument of the last publishHeartbeat call
  hbPayload,     \* the payload array that call built
  lastSent       \* subject -> transfer-ID of the last frame passed to socketcanPush

vars ==
  << pc, now, boot_ts, next_1hz_at, hb_tid, us_tid, startTick, firstTick,
     heap, queue, txf, registered, hbPublishes, hbEnq, usPublishes, usEnq,
     hbUptimes, lows, armed, last, checked, missed, hbArg, hbPayload,
     lastSent >>

\* ------------------------------------------------------ 32-bit arithmetic
\* tick - startTick on uint32_t operands.
Sub32(a, b) ==
  LET borrow == IF a[2] < b[2] THEN 1 ELSE 0
  IN << (a[1] - b[1] - borrow) % HalfWord, (a[2] - b[2]) % HalfWord >>

\* The conversion of a uint32_t to int.
ToInt(u) ==
  IF u[1] >= SignWord THEN (u[1] - HalfWord) * HalfWord + u[2]
  ELSE u[1] * HalfWord + u[2]

Less32(a, b) == a[1] < b[1] \/ (a[1] = b[1] /\ a[2] < b[2])

IsZero32(a) == a = <<0, 0>>

\* The uint32_t value of a non-negative int.
Word32(n) == << n \div HalfWord, n % HalfWord >>

\* diffTick = tick - startTick, stored in an int.
DiffTick(tick, start) == ToInt(Sub32(tick, start))

\* diffTick / 2 on int operands: the quotient is truncated toward zero.
HalfTicks(d) == IF d >= 0 THEN d \div 2 ELSE (d + 1) \div 2

\* distanceCm = (diffTick / 2) * 0.0343, in units of 0.0343 cm.
DistanceCm(d) == HalfTicks(d)

\* The counter advanced twice per publish.
NextTransferId_Twice(t) == (t + 2) % TransferIdModulo

\* ++transfer_id on a uint8_t.
NextTransferId(t) == (t + 1) % TransferIdModulo

\* The comparison taken with <= : a heartbeat is due at boot already.
HeartbeatDue_Inclusive(next, t) == next <= t

\* if (next_1hz_at < time(NULL))
HeartbeatDue(next, t) == next < t

\* ------------------------------------------------------- transmit queue
FreeSlots(h, q) ==
  { s \in Slots : h[s].st # "live" /\ \A i \in 1..Len(q) : q[i] # s }

\* The allocator returns memory unless none is left.
CanAlloc(h, q) == FreeSlots(h, q) # {}

AllocSlot(h, q) == CHOOSE s \in FreeSlots(h, q) : \A o \in FreeSlots(h, q) : s <= o

\* Frames are ordered by CAN identifier: priority, then port.
FrameKey(tr) == tr.priority * HalfWord + tr.port_id

\* The number of queued frames the new frame goes behind.
InsertAfter(h, q, tr) ==
  Cardinality({ i \in 1..Len(q) : FrameKey(h[q[i]].tr) <= FrameKey(tr) })

QueueInsert(h, q, tr, s) ==
  LET n == InsertAfter(h, q, tr)
  IN SubSeq(q, 1, n) \o <<s>> \o SubSeq(q, n + 1, Len(q))

\* canardTxPush succeeded: the allocator gave memory.
TxPushOk(ok) == ok /\ CanAlloc(heap, queue)

\* canardTxPush: one frame per transfer (both payloads fit a classic frame).
TxPush(tr, ok) ==
  IF TxPushOk(ok)
  THEN LET s == AllocSlot(heap, queue)
       IN /\ heap' = [heap EXCEPT ![s] = [st |-> "live", tr |-> tr]]
          /\ queue' = QueueInsert(heap, queue, tr, s)
  ELSE UNCHANGED <<heap, queue>>

\* canardTxPeek
TxPeekFrame(q) == IF Len(q) = 0 THEN NullFrame ELSE Head(q)

\* canardTxPop: unlinks the head of the queue.
TxPopQueue(q) == IF Len(q) = 0 THEN q ELSE Tail(q)

\* (uint8_t)x
Byte(x) == x % ByteModulo

\* The uptime written most significant byte first.
HeartbeatPayload_BigEndian(u) ==
  << Byte(u[1] \div ByteModulo), Byte(u[1]), Byte(u[2] \div ByteModulo), Byte(u[2]),
     0, 0, 0 >>

\* payload[7] = { uptime >> 0, uptime >> 8, uptime >> 16, uptime >> 24, 0, 0, 0 }
HeartbeatPayload(u) ==
  << Byte(u[2]), Byte(u[2] \div ByteModulo), Byte(u[1]), Byte(u[1] \div ByteModulo),
     0, 0, 0 >>

\* No frame of the subject has been passed to socketcanPush.
NoneSent == -1

Subjects == {HeartbeatSubjectID, UltrasoundMessageSubjectID}

NoTransfer ==
  [priority |-> 0, kind |-> "None", port_id |-> 0, remote_node_id |-> 0,
   transfer_id |-> 0, payload_size |-> 0, payload |-> 0]

\* The heartbeat sent on the distance subject.
HeartbeatTransfer_OnDistanceSubject(uptime, tid) ==
  [priority |-> CanardPriorityNominal, kind |-> "Message",
   port_id |-> UltrasoundMessageSubjectID, remote_node_id |-> NodeIdUnset,
   transfer_id |-> tid, payload_size |-> Len(HeartbeatPayload(Word32(uptime))),
   payload |-> HeartbeatPayload(Word32(uptime))]

HeartbeatTransfer(uptime, tid) ==
  [priority |-> CanardPriorityNominal, kind |-> "Message",
   port_id |-> HeartbeatSubjectID, remote_node_id |-> NodeIdUnset,
   transfer_id |-> tid, payload_size |-> Len(HeartbeatPayload(Word32(uptime))),
   payload |-> HeartbeatPayload(Word32(uptime))]

UltrasoundTransfer(distance, tid) ==
  [priority |-> CanardPriorityNominal, kind |-> "Message",
   port_id |-> UltrasoundMessageSubjectID, remote_node_id |-> NodeIdUnset,
   transfer_id |-> tid, payload_size |-> UltrasoundPayloadSize,
   payload |-> distance]

\* No LOW edge since the last HIGH edge.
NoLast == [tick |-> <<0, 0>>, diff |-> 0, dist |-> 0]

\* ------------------------------------------------------------------ Init
Init ==
  /\ pc = "start"
  /\ now = StartClock
  /\ boot_ts = 0        \* not read before MainBoot sets it
  /\ next_1hz_at = 0
  /\ hb_tid = 0
  /\ us_tid = 0
  /\ startTick = <<0, 0>>
  /\ firstTick = <<0, 0>>
  /\ heap = [s \in Slots |-> [st |-> "free", tr |-> NoTransfer]]
  /\ queue = <<>>
  /\ txf = NullFrame
  /\ registered = FALSE
  /\ hbPublishes = 0
  /\ hbEnq = 0
  /\ usPublishes = 0
  /\ usEnq = 0
  /\ hbUptimes = <<>>
  /\ lows = 0
  /\ armed = FALSE
  /\ last = NoLast
  /\ checked = FALSE
  /\ missed = FALSE
  /\ hbArg = <<0, 0>>
  /\ hbPayload = <<>>
  /\ lastSent = [p \in Subjects |-> NoneSent]

\* --------------------------------------------------------- the publishers
\* The uptime taken as the clock reading itself.
Uptime_Absolute(t, boot) == t

\* time(NULL) - boot_ts, passed as a uint32_t (no wrap within MaxTime).
Uptime(t, boot) == t - boot

\* The counter advanced only when the push succeeds.
PublishHeartbeat_OnSuccess(uptime, ok) ==
  /\ hb_tid' = IF TxPushOk(ok) THEN NextTransferId(hb_tid) ELSE hb_tid
  /\ TxPush(HeartbeatTransfer(uptime, hb_tid), ok)

\* publishHeartbeat: the transfer takes transfer_id, the counter is advanced,
\* then the transfer is pushed; the result of the push is discarded.
PublishHeartbeat(uptime, ok) ==
  /\ hb_tid' = NextTransferId(hb_tid)
  /\ TxPush(HeartbeatTransfer(uptime, hb_tid), ok)

\* publishUltrasoundDistance
PublishUltrasoundDistance(distance, ok) ==
  /\ us_tid' = NextTransferId(us_tid)
  /\ TxPush(UltrasoundTransfer(distance, us_tid), ok)

\* ------------------------------------------------------ the echo callback
\* if (!firstTick) firstTick = tick;
FirstTickAfter(first, tick) == IF IsZero32(first) THEN tick ELSE first

\* The start of the window kept from the first HIGH edge on.
StartTickAfter_First(start, tick) == IF IsZero32(start) THEN tick ELSE start

\* startTick = tick;
StartTickAfter(start, tick) == tick

\* The callback publishing on the HIGH edge as well.
UltrasoundEcho_PublishOnHigh(level, tick, ok) ==
  /\ firstTick' = FirstTickAfter(firstTick, tick)
  /\ startTick' = IF level = PI_ON THEN tick ELSE startTick
  /\ PublishUltrasoundDistance(DistanceCm(DiffTick(tick, startTick)), ok)

\* ultrasoundEcho, the program's part.
UltrasoundEcho(level, tick, ok) ==
  /\ firstTick' = FirstTickAfter(firstTick, tick)
  /\ IF level = PI_ON
     THEN /\ startTick' = StartTickAfter(startTick, tick)
          /\ UNCHANGED <<us_tid, heap, queue>>
     ELSE IF level = PI_OFF
     THEN /\ PublishUltrasoundDistance(DistanceCm(DiffTick(tick, startTick)), ok)
          /\ UNCHANGED startTick
     ELSE UNCHANGED <<startTick, us_tid, heap, queue>>

\* One edge event delivered to the callback, with the history it leaves.
EchoEdge(level, tick, ok) ==
  /\ registered
  /\ pc \notin {"exit1", "crashed"}
  /\ UltrasoundEcho(level, tick, ok)
  /\ lows' = IF level = PI_OFF THEN lows + 1 ELSE lows
  /\ armed' = IF level = PI_ON THEN TRUE ELSE IF level = PI_OFF THEN FALSE ELSE armed
  /\ usPublishes' = IF us_tid' # us_tid \/ queue' # queue THEN usPublishes + 1 ELSE usPublishes
  /\ usEnq' = usEnq + (Len(queue') - Len(queue))
  /\ last' = IF level = PI_OFF
             THEN [tick |-> tick,
                   diff |-> DiffTick(tick, startTick),
                   dist |-> IF Len(queue') > Len(queue)
                            THEN heap'[AllocSlot(heap, queue)].tr.payload
                            ELSE DistanceCm(DiffTick(tick, startTick))]
             ELSE IF level = PI_ON THEN NoLast ELSE last
  /\ UNCHANGED <<pc, now, boot_ts, next_1hz_at, hb_tid, txf, registered,
                 hbPublishes, hbEnq, hbUptimes, checked, missed>>
  /\ UNCHANGED <<hbArg, hbPayload, lastSent>>

\* ------------------------------------------------------------ the clock
\* One second passes.  The seconds before boot_ts is read are not counted:
\* the schedule depends on the clock only through its distance to boot_ts.
Tick ==
  /\ now < StartClock + MaxTime
  /\ pc \notin {"start", "boot", "exit1", "crashed"}
  /\ now' = now + 1
  /\ missed' = (missed \/ ~checked)
  /\ checked' = FALSE
  /\ UNCHANGED <<pc, boot_ts, next_1hz_at, hb_tid, us_tid, startTick,
                 firstTick, heap, queue, txf, registered, hbPublishes, hbEnq,
                 usPublishes, usEnq, hbUptimes, lows, armed, last>>
  /\ UNCHANGED <<hbArg, hbPayload, lastSent>>

\* ------------------------------------------------------------------ main
\* The result of initializaUltrasoundSensor not looked at.
MainInit_GpioUnchecked(argc, sockOk, gpioOk) ==
  /\ pc = "start"
  /\ IF argc # 3 THEN pc' = "exit1" /\ UNCHANGED registered
     ELSE IF ~sockOk THEN pc' = "exit1" /\ UNCHANGED registered
     ELSE pc' = "boot" /\ registered' = gpioOk
  /\ UNCHANGED <<now, boot_ts, next_1hz_at, hb_tid, us_tid, startTick,
                 firstTick, heap, queue, txf, hbPublishes, hbEnq, usPublishes,
                 usEnq, hbUptimes, lows, armed, last, checked, missed,
                 hbArg, hbPayload, lastSent>>

\* The argument check, socketcanOpen and initializaUltrasoundSensor.
MainInit(argc, sockOk, gpioOk) ==
  /\ pc = "start"
  /\ IF argc # 3 THEN pc' = "exit1" /\ UNCHANGED registered
     ELSE IF ~sockOk THEN pc' = "exit1" /\ UNCHANGED registered
     ELSE IF ~gpioOk THEN pc' = "exit1" /\ UNCHANGED registered
     ELSE pc' = "boot" /\ registered' = TRUE
  /\ UNCHANGED <<now, boot_ts, next_1hz_at, hb_tid, us_tid, startTick,
                 firstTick, heap, queue, txf, hbPublishes, hbEnq, usPublishes,
                 usEnq, hbUptimes, lows, armed, last, checked, missed>>
  /\ UNCHANGED <<hbArg, hbPayload, lastSent>>

\* boot_ts = time(NULL); next_1hz_at = boot_ts;
MainBoot ==
  /\ pc = "boot"
  /\ boot_ts' = now
  /\ next_1hz_at' = now
  /\ pc' = "check"
  /\ UNCHANGED <<now, hb_tid, us_tid, startTick, firstTick, heap, queue, txf,
                 registered, hbPublishes, hbEnq, usPublishes, usEnq, hbUptimes,
                 lows, armed, last, checked, missed>>
  /\ UNCHANGED <<hbArg, hbPayload, lastSent>>

\* if (next_1hz_at < time(NULL)) next_1hz_at++;
HeartbeatCheck ==
  /\ pc = "check"
  /\ IF HeartbeatDue(next_1hz_at, now)
     THEN next_1hz_at' = next_1hz_at + 1 /\ pc' = "publish"
     ELSE next_1hz_at' = next_1hz_at /\ pc' = "peek"
  /\ checked' = TRUE
  /\ UNCHANGED <<now, boot_ts, hb_tid, us_tid, startTick, firstTick, heap,
                 queue, txf, registered, hbPublishes, hbEnq, usPublishes,
                 usEnq, hbUptimes, lows, armed, last, missed>>
  /\ UNCHANGED <<hbArg, hbPayload, lastSent>>

\* The publish tried again on the next iteration when its push failed.
HeartbeatPublish_Retry(ok) ==
  /\ pc = "publish"
  /\ PublishHeartbeat(Uptime(now, boot_ts), ok)
  /\ pc' = IF Len(queue') > Len(queue) THEN "peek" ELSE "publish"
  /\ hbPublishes' = hbPublishes + 1
  /\ hbEnq' = hbEnq + (Len(queue') - Len(queue))
  /\ hbUptimes' = Append(hbUptimes, Uptime(now, boot_ts))
  /\ hbArg' = Word32(Uptime(now, boot_ts))
  /\ hbPayload' = HeartbeatPayload(hbArg')
  /\ UNCHANGED <<now, boot_ts, next_1hz_at, us_tid, startTick, firstTick, txf,
                 registered, usPublishes, usEnq, lows, armed, last,
                 checked, missed>>
  /\ UNCHANGED lastSent

\* publishHeartbeat(&canard, time(NULL) - boot_ts): a second clock reading.
HeartbeatPublish(ok) ==
  /\ pc = "publish"
  /\ PublishHeartbeat(Uptime(now, boot_ts), ok)
  /\ pc' = "peek"
  /\ hbPublishes' = hbPublishes + 1
  /\ hbEnq' = hbEnq + (Len(queue') - Len(queue))
  /\ hbUptimes' = Append(hbUptimes, Uptime(now, boot_ts))
  /\ hbArg' = Word32(Uptime(now, boot_ts))
  /\ hbPayload' = HeartbeatPayload(hbArg')
  /\ UNCHANGED <<now, boot_ts, next_1hz_at, us_tid, startTick, firstTick, txf,
                 registered, usPublishes, usEnq, lows, armed, last,
                 checked, missed>>
  /\ UNCHANGED lastSent

\* txf = canardTxPeek(&canard); while (txf != NULL)
TxPeek ==
  /\ pc = "peek"
  /\ txf' = TxPeekFrame(queue)
  /\ pc' = IF txf' = NullFrame THEN "check" ELSE "push"
  /\ UNCHANGED <<now, boot_ts, next_1hz_at, hb_tid, us_tid, startTick,
                 firstTick, heap, queue, registered, hbPublishes, hbEnq,
                 usPublishes, usEnq, hbUptimes, lows, armed, last,
                 checked, missed>>
  /\ UNCHANGED <<hbArg, hbPayload, lastSent>>

\* A use of released memory is undefined: the process goes on or aborts.
AfterMemoryUse(stale, abort, next) ==
  IF stale /\ abort THEN "crashed" ELSE next

\* (void)socketcanPush(sock, txf, 0): reads the frame, the result is dropped.
SocketPush(res, abort) ==
  /\ pc = "push"
  /\ pc' = AfterMemoryUse(heap[txf].st # "live", abort, "pop")
  /\ UNCHANGED <<now, boot_ts, next_1hz_at, hb_tid, us_tid, startTick,
                 firstTick, heap, queue, txf, registered, hbPublishes, hbEnq,
                 usPublishes, usEnq, hbUptimes, lows, armed, last,
                 checked, missed>>
  /\ UNCHANGED <<hbArg, hbPayload>>
  /\ lastSent' = IF pc' = "pop" /\ heap[txf].tr.port_id \in Subjects
                  THEN [lastSent EXCEPT ![heap[txf].tr.port_id] = heap[txf].tr.transfer_id]
                  ELSE lastSent

\* canardTxPop(&canard)
TxPop(abort) ==
  /\ pc = "pop"
  /\ queue' = TxPopQueue(queue)
  /\ pc' = AfterMemoryUse(Len(queue) > 0 /\ heap[Head(queue)].st # "live",
                          abort, "free")
  /\ UNCHANGED <<now, boot_ts, next_1hz_at, hb_tid, us_tid, startTick,
                 firstTick, heap, txf, registered, hbPublishes, hbEnq,
                 usPublishes, usEnq, hbUptimes, lows, armed, last,
                 checked, missed>>
  /\ UNCHANGED <<hbArg, hbPayload, lastSent>>

\* Released memory keeps its bytes; they can be read again only through
\* the queue, so those of an unlinked frame are not kept.
Released(h, q, f) ==
  [st |-> "free",
   tr |-> IF \E i \in 1..Len(q) : q[i] = f THEN h[f].tr ELSE NoTransfer]

\* free((void *)txf)
Free(abort) ==
  /\ pc = "free"
  /\ heap' = [heap EXCEPT ![txf] = Released(heap, queue, txf)]
  /\ pc' = AfterMemoryUse(heap[txf].st # "live", abort, "peek")
  /\ UNCHANGED <<now, boot_ts, next_1hz_at, hb_tid, us_tid, startTick,
                 firstTick, queue, txf, registered, hbPublishes, hbEnq,
                 usPublishes, usEnq, hbUptimes, lows, armed, last,
                 checked, missed>>
  /\ UNCHANGED <<hbArg, hbPayload, lastSent>>

\* The LOW edges a uint8_t counter takes before its next increment wraps it.
LateLows == TransferIdModulo - 1

\* At most MaxLow LOW edges arrive, counted from the start of the run or
\* from its LateLows-th LOW edge.
MoreLows ==
  \/ lows < MaxLow
  \/ lows >= LateLows /\ lows < LateLows + MaxLow

Next ==
  \/ \E argc \in {2, 3}, sockOk \in BOOLEAN, gpioOk \in BOOLEAN :
       MainInit(argc, sockOk, gpioOk)
  \/ MainBoot
  \/ Tick
  \/ \E level \in Levels, ok \in BOOLEAN :
       \E tick \in TicksOf(level) :
         (level = PI_OFF => MoreLows) /\ EchoEdge(level, tick, ok)
  \/ HeartbeatCheck
  \/ \E ok \in BOOLEAN : HeartbeatPublish(ok)
  \/ TxPeek
  \/ \E res \in {-1, 0, 1}, abort \in BOOLEAN : SocketPush(res, abort)
  \/ \E abort \in BOOLEAN : TxPop(abort)
  \/ \E abort \in BOOLEAN : Free(abort)

Spec == Init /\ [][Next]_vars

\* The program once LateLows LOW edges have arrived within the second of
\* boot, before any HIGH edge, each published, enqueued and drained: the
\* state one publish before the distance counter wraps.
InitLate ==
  /\ pc = "check"
  /\ now = StartClock
  /\ boot_ts = StartClock
  /\ next_1hz_at = StartClock
  /\ hb_tid = 0
  /\ us_tid = LateLows % TransferIdModulo
  /\ startTick = <<0, 0>>
  /\ firstTick = <<0, 1100>>
  /\ heap = [s \in Slots |-> [st |-> "free", tr |-> NoTransfer]]
  /\ queue = <<>>
  /\ txf = NullFrame
  /\ registered = TRUE
  /\ hbPublishes = 0
  /\ hbEnq = 0
  /\ usPublishes = LateLows
  /\ usEnq = LateLows
  /\ hbUptimes = <<>>
  /\ lows = LateLows
  /\ armed = FALSE
  /\ last = [tick |-> <<0, 1100>>, diff |-> DiffTick(<<0, 1100>>, <<0, 0>>),
             dist |-> DistanceCm(DiffTick(<<0, 1100>>, <<0, 0>>))]
  /\ checked = TRUE
  /\ missed = FALSE
  /\ hbArg = <<0, 0>>
  /\ hbPayload = <<>>
  /\ lastSent = [p \in Subjects |-> IF p = UltrasoundMessageSubjectID
                                    THEN (LateLows - 1) % TransferIdModulo ELSE NoneSent]

\* The program from its start and from that later state.
SpecLate == (Init \/ InitLate) /\ [][Next]_vars

\* publishHeartbeat taken alone, over the range of its uint32_t argument:
\* the 16-bit halves of the uptimes it is called with.
SampleHalves == {0, 1, 255, 256, 3723, 4660, 32767, 32768, 43981, 65535}

UptimeSamples == SampleHalves \X SampleHalves

InitPayload ==
  /\ hbArg \in UptimeSamples
  /\ hbPayload = <<>>
  /\ pc = "publish"
  /\ now = StartClock
  /\ boot_ts = StartClock
  /\ next_1hz_at = StartClock
  /\ hb_tid = 0
  /\ us_tid = 0
  /\ startTick = <<0, 0>>
  /\ firstTick = <<0, 0>>
  /\ heap = [s \in Slots |-> [st |-> "free", tr |-> NoTransfer]]
  /\ queue = <<>>
  /\ txf = NullFrame
  /\ registered = TRUE
  /\ hbPublishes = 0
  /\ hbEnq = 0
  /\ usPublishes = 0
  /\ usEnq = 0
  /\ hbUptimes = <<>>
  /\ lows = 0
  /\ armed = FALSE
  /\ last = NoLast
  /\ checked = TRUE
  /\ missed = FALSE
  /\ lastSent = [p \in Subjects |-> NoneSent]

\* The payload array of publishHeartbeat(canard, hbArg) is built.
BuildPayload ==
  /\ hbPayload = <<>>
  /\ hbPayload' = HeartbeatPayload(hbArg)
  /\ UNCHANGED <<pc, now, boot_ts, next_1hz_at, hb_tid, us_tid, startTick,
                 firstTick, heap, queue, txf, registered, hbPublishes, hbEnq,
                 usPublishes, usEnq, hbUptimes, lows, armed, last, checked,
                 missed, hbArg, lastSent>>

NextPayload == BuildPayload

SpecPayload == InitPayload /\ [][NextPayload]_vars

\* ---------------------------------------------------------------- claims
\* The steps of the two threads, as the history shows them.
LowEdge == lows' = lows + 1

ArmedLowEdge == LowEdge /\ armed

DistancePublish == usPublishes' = usPublishes + 1

DistanceEnqueue == usEnq' = usEnq + 1

HeartbeatPublished == hbPublishes' = hbPublishes + 1

HeartbeatEnqueue == hbEnq' = hbEnq + 1

Emission == pc = "check" /\ pc' = "publish"

IdleCheck == pc = "check" /\ pc' = "peek"

DrainEnd == pc = "peek" /\ pc' = "check"

FreeStep == pc = "free" /\ pc' # "free"

\* C1: a LOW edge with no HIGH edge before it in the same cycle enqueues no
\* distance transfer and leaves the distance transfer-ID counter unchanged.
C1_UnarmedLowPublishesNothing ==
  [][(LowEdge /\ ~armed) => (usEnq' = usEnq /\ us_tid' = us_tid)]_vars

\* C2 as stated: next_1hz_at advances by 1 per emission, and once a heartbeat
\* has been emitted none is due again until the clock advances, however long
\* the loop had stalled.
C2_OneHeartbeatPerStall ==
  [][Emission => (next_1hz_at' = next_1hz_at + 1 /\ ~(next_1hz_at' < now'))]_vars

\* C2 as amended: next_1hz_at advances by exactly 1 per emission and never
\* passes the clock; a check that finds a second due always emits; so the
\* check finds nothing due only when every second since boot has had its
\* heartbeat publish, the seconds of a stall included.
C2_StallIsBackfilled ==
  [][/\ Emission => (next_1hz_at' = next_1hz_at + 1 /\ next_1hz_at' <= now')
     /\ (pc = "check" /\ next_1hz_at < now) => pc' \in {"check", "publish"}
     /\ IdleCheck => (next_1hz_at = now /\ hbPublishes = now - boot_ts)]_vars

\* A stall was followed by two heartbeats with no clock advance between them.
C2_Witness ==
  /\ missed
  /\ pc = "peek"
  /\ next_1hz_at = now
  /\ Len(hbUptimes) >= 2
  /\ hbUptimes[Len(hbUptimes)] = hbUptimes[Len(hbUptimes) - 1]
  /\ hbPublishes = now - boot_ts

\* C3: when a drain pass ends the queue is empty and every frame that was
\* queued has been passed to free exactly once: no frame is freed twice and
\* none is left allocated.
C3_DrainFreesEachFrameOnce ==
  [][/\ FreeStep => heap[txf].st = "live"
     /\ DrainEnd => (queue = <<>> /\ \A s \in Slots : heap[s].st # "live")]_vars

\* C4: no enqueue by the echo callback happens while the main loop is
\* between its peek and its free of a frame.
C4_SingleWriter ==
  [][DistanceEnqueue => pc \notin {"push", "pop", "free"}]_vars

\* C5: a successful enqueue of a subject's transfer advances that subject's
\* transfer-ID counter by exactly 1 modulo 256 and leaves the other subject's
\* counter unchanged; no publish of one subject changes the other's counter.
C5_CountersAreIndependent ==
  [][/\ HeartbeatEnqueue =>
          (hb_tid' = (hb_tid + 1) % TransferIdModulo /\ us_tid' = us_tid)
     /\ DistanceEnqueue =>
          (us_tid' = (us_tid + 1) % TransferIdModulo /\ hb_tid' = hb_tid)
     /\ HeartbeatPublished => us_tid' = us_tid
     /\ DistancePublish => hb_tid' = hb_tid]_vars

\* The distance counter has wrapped from 255 to 0 on its 256th enqueue, the
\* heartbeat counter has gone from 0 to 1 since, and both frames are queued.
C5_Witness ==
  /\ usEnq = TransferIdModulo
  /\ us_tid = 0
  /\ hbEnq = 1
  /\ hb_tid = 1
  /\ Len(queue) >= 2

\* C6 as stated: each counter equals the number of successful enqueues of
\* its subject modulo 256; a publish whose push fails does not advance it.
C6_CountsEnqueues ==
  /\ hb_tid = hbEnq % TransferIdModulo
  /\ us_tid = usEnq % TransferIdModulo

\* C6 as amended: each counter starts at 0, is never reset and equals the
\* number of publish calls of its subject modulo 256, whether or not the
\* push of a call succeeded.
C6_CountsPublishes ==
  /\ hb_tid = hbPublishes % TransferIdModulo
  /\ us_tid = usPublishes % TransferIdModulo
  /\ hbEnq <= hbPublishes
  /\ usEnq <= usPublishes

\* The 256th distance publish failed its push and wrapped the counter all the
\* same; the heartbeat pushes have all failed and its counter has advanced.
C6_Witness ==
  /\ usPublishes = TransferIdModulo
  /\ usEnq = TransferIdModulo - 1
  /\ us_tid = 0
  /\ hbPublishes >= 1
  /\ hbEnq = 0
  /\ hb_tid = hbPublishes

\* The end of the 2.5 second scenario: no edge event, the clock two seconds
\* past boot, a check made at every clock value, and the publish of the last
\* check done.
QuietScenarioEnd ==
  /\ pc \in {"check", "peek", "push", "pop", "free"}
  /\ now = boot_ts + 2
  /\ checked
  /\ ~missed
  /\ lows = 0
  /\ ~armed
  /\ IsZero32(firstTick)

\* C7 as stated: the scenario ends with exactly 2 heartbeat transfers
\* enqueued, their uptimes consecutive (0 and 1, or 1 and 2), and no
\* distance transfer.
C7_TwoConsecutiveHeartbeats ==
  QuietScenarioEnd =>
    /\ hbEnq = 2
    /\ hbUptimes \in {<<0, 1>>, <<1, 2>>}
    /\ usEnq = 0

\* C7 as amended: the scenario ends with exactly 2 heartbeat publishes, each
\* enqueued if its push succeeded; the second carries uptime 2 and the first
\* uptime 1, or 2 when the clock advanced between the schedule check and
\* the uptime reading; no distance transfer is published.
C7_TwoHeartbeatPublishes ==
  QuietScenarioEnd =>
    /\ hbPublishes = 2
    /\ hbEnq <= 2
    /\ hbUptimes \in {<<1, 2>>, <<2, 2>>}
    /\ usPublishes = 0
    /\ usEnq = 0

\* The scenario ended with both heartbeats enqueued, uptimes 1 and 2.
C7_Witness ==
  /\ QuietScenarioEnd
  /\ hbEnq = 2
  /\ hbUptimes = <<1, 2>>

\* C8: a distance publish is made exactly when a LOW edge completes a
\* HIGH-then-LOW cycle, so the publishes number the completed cycles; HIGH
\* at tick 1000 and LOW at tick 1100 give elapsed = 100 and one publish.
C8_OnePublishPerCycle ==
  [][/\ DistancePublish <=> ArmedLowEdge
     /\ (ArmedLowEdge /\ startTick = <<0, 1000>> /\ last'.tick = <<0, 1100>>)
          => last'.diff = 100]_vars

\* C9: the elapsed value taken on the LOW edge of a cycle is the
\* non-negative value (tick - start_tick) mod 2^32, also when the tick
\* counter wrapped between the two edges.
C9_ElapsedIsUnsignedDifference ==
  [][ArmedLowEdge =>
       /\ last'.diff >= 0
       /\ Word32(last'.diff) = Sub32(last'.tick, startTick)]_vars

\* C10: for t1 < t2 the published distance is (elapsed/2)*0.0343 with the
\* exact half of elapsed, and elapsed + 1 gives a larger distance.
C10_ExactHalfStrictlyIncreasing ==
  [][(ArmedLowEdge /\ Less32(startTick, last'.tick)) =>
       /\ 2 * last'.dist = last'.diff
       /\ DistanceCm(last'.diff + 1) > last'.dist]_vars

\* A step taken while an echo is stalled: a HIGH edge came last and the step
\* is not a LOW edge.
StalledStep == armed /\ lows' = lows

\* A HIGH edge at the given tick is delivered.
HighEdgeAt(tick) == \E ok \in BOOLEAN : EchoEdge(PI_ON, tick, ok)

\* C11: while a HIGH edge has had no LOW edge after it no distance is
\* published and the distance counter stays unchanged; the heartbeat
\* schedule goes on (a due check emits, a publish advances the heartbeat
\* counter); a HIGH edge that comes during the stall replaces the stalled
\* start tick, so when a stalled HIGH at 2^31 + 1100 is followed by HIGH at
\* 1000 and LOW at 1100 the distance is computed from 1000: diffTick = 100.
C11_StalledEchoDoesNotWedge ==
  [][/\ StalledStep =>
          (usPublishes' = usPublishes /\ usEnq' = usEnq /\ us_tid' = us_tid)
     /\ (StalledStep /\ pc = "check" /\ next_1hz_at < now /\ pc' # pc) => Emission
     /\ (StalledStep /\ HeartbeatPublished) =>
          (hb_tid' = (hb_tid + 1) % TransferIdModulo /\ pc' = "peek")
     /\ \A tick \in HighTicks : (armed /\ HighEdgeAt(tick)) => startTick' = tick
     /\ (ArmedLowEdge /\ firstTick = <<32768, 1100>> /\ startTick = <<0, 1000>>) =>
          (last'.diff = 100 /\ last'.dist = 50 /\ usPublishes' = usPublishes + 1)]_vars

\* The first event was the HIGH edge at 2^31 + 1100, which no LOW edge
\* followed; the HIGH/LOW pair 1000/1100 came later and its distance was
\* published; heartbeats have been emitted.
C11_Witness ==
  /\ firstTick = <<32768, 1100>>
  /\ startTick = <<0, 1000>>
  /\ lows = 1
  /\ ~armed
  /\ last.diff = 100
  /\ usPublishes = 1
  /\ hbPublishes >= 1

\* The frames a step has linked into the queue.
NewFrames == { s \in Slots : (\E i \in 1..Len(queue') : queue'[i] = s)
                              /\ ~(\E i \in 1..Len(queue) : queue[i] = s) }

\* C12: a publish whose push fails leaves frame memory and the queue as they
\* were and the thread that made it goes on (the main loop to its drain);
\* nothing is tried again: a frame enters the queue only in the publish
\* step of its own transfer, carrying the transfer-ID the counter had then.
C12_FailedPushIsDropped ==
  [][/\ (HeartbeatPublished /\ hbEnq' = hbEnq) =>
          (queue' = queue /\ heap' = heap /\ pc' = "peek")
     /\ (DistancePublish /\ usEnq' = usEnq) =>
          (queue' = queue /\ heap' = heap /\ pc' = pc)
     /\ \A s \in NewFrames :
          \/ /\ HeartbeatPublished
             /\ heap'[s].tr.port_id = HeartbeatSubjectID
             /\ heap'[s].tr.transfer_id = hb_tid
          \/ /\ DistancePublish
             /\ heap'[s].tr.port_id = UltrasoundMessageSubjectID
             /\ heap'[s].tr.transfer_id = us_tid]_vars

\* The first heartbeat push and a distance push failed; the second
\* heartbeat was published all the same and its frame, transfer-ID 1, is
\* the only frame queued.
C12_Witness ==
  /\ hbPublishes = 2
  /\ hbEnq = 1
  /\ usPublishes = 1
  /\ usEnq = 0
  /\ Len(queue) = 1
  /\ heap[queue[1]].tr.port_id = HeartbeatSubjectID
  /\ heap[queue[1]].tr.transfer_id = 1

\* The frame is linked in the transmit queue.
Linked(q, s) == \E i \in 1..Len(q) : q[i] = s

\* C13: every enqueued frame reaches socketcanPush.  A frame is passed to
\* socketcanPush only while it is the peeked head of the queue, so no frame
\* may leave the queue unsent: an allocated frame that is no longer linked
\* is the one the main loop has just sent and popped and is about to free.
C13_NoFrameLeavesUnsent ==
  \A s \in Slots :
    (heap[s].st = "live" /\ ~Linked(queue, s)) => (s = txf /\ pc = "free")

\* A transfer the node may send.
ValidTransfer(tr) ==
  /\ tr.kind = "Message"
  /\ tr.priority = CanardPriorityNominal
  /\ tr.remote_node_id = NodeIdUnset
  /\ \/ tr.port_id = HeartbeatSubjectID /\ tr.payload_size = HeartbeatPayloadSize
     \/ tr.port_id = UltrasoundMessageSubjectID /\ tr.payload_size = UltrasoundPayloadSize

\* C14: the transfer a heartbeat publish or a LOW edge would hand to
\* canardTxPush in the current state, and every transfer whose frame is in
\* frame memory, has kind Message, priority Nominal, the unset destination
\* and subject 32085 with 7 payload bytes or subject 1610 with 4.
C14_OnlyTheTwoTransfers ==
  /\ pc \notin {"start", "boot"} =>
       ValidTransfer(HeartbeatTransfer(Uptime(now, boot_ts), hb_tid))
  /\ \A tick \in LowTicks :
       ValidTransfer(UltrasoundTransfer(DistanceCm(DiffTick(tick, startTick)), us_tid))
  /\ \A s \in Slots : heap[s].tr # NoTransfer => ValidTransfer(heap[s].tr)

\* A frame of each subject is queued.
C14_Witness ==
  /\ Len(queue) = 2
  /\ heap[queue[1]].tr.port_id = UltrasoundMessageSubjectID
  /\ heap[queue[1]].tr.payload_size = UltrasoundPayloadSize
  /\ heap[queue[2]].tr.port_id = HeartbeatSubjectID
  /\ heap[queue[2]].tr.payload_size = HeartbeatPayloadSize

\* The uint32_t read from four bytes, least significant first.
DecodeU32LE(b) == << b[3] + ByteModulo * b[4], b[1] + ByteModulo * b[2] >>

\* C15: the payload built for an uptime has 7 bytes, each in 0..255; bytes
\* 0..3 read as a little-endian u32 give the uptime back and bytes 4..6 are
\* zero; uptime 3723 gives the bytes 139, 14, 0, 0, 0, 0, 0.
C15_PayloadIsLittleEndianUptime ==
  hbPayload # <<>> =>
    /\ Len(hbPayload) = HeartbeatPayloadSize
    /\ \A i \in 1..Len(hbPayload) : hbPayload[i] \in 0..(ByteModulo - 1)
    /\ DecodeU32LE(hbPayload) = hbArg
    /\ \A i \in 5..7 : hbPayload[i] = 0
    /\ hbArg = <<0, 3723>> => hbPayload = <<139, 14, 0, 0, 0, 0, 0>>

\* The payload of uptime 43981 * 2^16 + 3723 has been built.
C15_Witness ==
  /\ hbArg = <<43981, 3723>>
  /\ hbPayload = <<139, 14, 205, 171, 0, 0, 0>>

\* C16: when the argument count is not 3, or socketcanOpen fails, or
\* gpioInitialise fails, main returns 1; the process is then left with no
\* callback registered, no publish made and nothing enqueued, and it never
\* leaves that state.
C16_InitFaultIsFatal ==
  [][/\ \A argc \in {2, 3}, sockOk \in BOOLEAN, gpioOk \in BOOLEAN :
          (MainInit(argc, sockOk, gpioOk) /\ (argc # 3 \/ ~sockOk \/ ~gpioOk))
            => pc' = "exit1"
     /\ pc' = "exit1" =>
          /\ ~registered'
          /\ hbPublishes' = 0 /\ usPublishes' = 0
          /\ hb_tid' = 0 /\ us_tid' = 0
          /\ queue' = <<>>
          /\ \A s \in Slots : heap'[s].st = "free"
     /\ pc = "exit1" => pc' = "exit1"]_vars

\* main has returned 1 with no callback registered and nothing published.
C16_Witness ==
  /\ pc = "exit1"
  /\ ~registered
  /\ hbPublishes = 0
  /\ usPublishes = 0
  /\ queue = <<>>

\* The steps of one pass of the drain loop over a frame.
PopStep == pc = "pop" /\ pc' # "pop"

\* C17: the frame canardTxPop removes is the frame that was peeked and
\* passed to socketcanPush, and the frame passed to free is no longer
\* linked in the queue.
C17_PopAndFreeThePeekedFrame ==
  [][/\ PopStep => (Len(queue) > 0 /\ Head(queue) = txf)
     /\ FreeStep => ~Linked(queue, txf)]_vars

\* The main loop has read boot_ts and has not returned.
InMainLoop == pc \in {"check", "publish", "peek", "push", "pop", "free", "crashed"}

\* C18 as stated: in every state of the main loop next_1hz_at <= now, the
\* heartbeat publishes number next_1hz_at - boot_ts and so at most the
\* seconds since boot, and the k-th heartbeat carries an uptime >= k.
C18_PublishesEqualSchedule ==
  InMainLoop =>
    /\ next_1hz_at <= now
    /\ hbPublishes = next_1hz_at - boot_ts
    /\ hbPublishes <= now - boot_ts
    /\ Len(hbUptimes) = hbPublishes
    /\ \A k \in 1..Len(hbUptimes) : hbUptimes[k] >= k

\* The heartbeat publishes the schedule accounts for: those made, and the
\* one of the emission under way between next_1hz_at++ and publishHeartbeat.
PublishesStarted == hbPublishes + (IF pc = "publish" THEN 1 ELSE 0)

\* C18 as amended: in every state of the main loop next_1hz_at <= now; the
\* heartbeat publishes made, counting the one an emission under way is
\* about to make, number next_1hz_at - boot_ts; those made are at most the
\* seconds since boot; and the k-th heartbeat carries an uptime >= k and at
\* most the seconds since boot.
C18_ScheduleBoundsPublishes ==
  InMainLoop =>
    /\ next_1hz_at <= now
    /\ PublishesStarted = next_1hz_at - boot_ts
    /\ hbPublishes <= now - boot_ts
    /\ Len(hbUptimes) = hbPublishes
    /\ \A k \in 1..Len(hbUptimes) :
         hbUptimes[k] >= k /\ hbUptimes[k] <= now - boot_ts

\* The second heartbeat's emission is under way: next_1hz_at has been
\* advanced to boot_ts + 2 and one heartbeat has been published.
C18_Witness ==
  /\ pc = "publish"
  /\ next_1hz_at = boot_ts + 2
  /\ hbPublishes = 1
  /\ hbUptimes[1] >= 1
  /\ now = boot_ts + 2

\* C19: a HIGH edge stores its tick in startTick, and in firstTick when it
\* is the first event; it enqueues nothing, publishes nothing and leaves
\* both transfer-ID counters, the queue and frame memory unchanged.
C19_HighEdgeOnlyRecordsStart ==
  [][\A tick \in HighTicks :
       HighEdgeAt(tick) =>
         /\ startTick' = tick
         /\ firstTick' = (IF IsZero32(firstTick) THEN tick ELSE firstTick)
         /\ queue' = queue
         /\ heap' = heap
         /\ hb_tid' = hb_tid
         /\ us_tid' = us_tid
         /\ usPublishes' = usPublishes /\ usEnq' = usEnq
         /\ hbPublishes' = hbPublishes /\ hbEnq' = hbEnq]_vars

\* The HIGH edge at tick 1000 was the first event: it is recorded and
\* nothing has been published or queued.
C19_Witness ==
  /\ armed
  /\ startTick = <<0, 1000>>
  /\ firstTick = <<0, 1000>>
  /\ lows = 0
  /\ us_tid = 0
  /\ usPublishes = 0
  /\ queue = <<>>

\* A frame is passed to socketcanPush.
PushStep == pc = "push" /\ pc' = "pop"

\* Transfer-ID a was assigned after transfer-ID b (modulo the wraparound).
AssignedAfter(a, b) == (a - b) % TransferIdModulo \in 1..(TransferIdModulo \div 2 - 1)

====
